---- MODULE Spec2Model ----
(***************************************************************************)
(* Word Chain (brand name challenge): the validation core of               *)
(* src/utils/gameLogic.js and src/utils/wikipediaApi.js, the game state    *)
(* hook src/hooks/useGameState.js and the event handlers of App.jsx.       *)
(*                                                                         *)
(* A JavaScript string is a sequence of one-character strings; null and    *)
(* undefined are the one-element sequence Null, which holds no character.  *)
(* Message texts are sequences too: their literal fragments are single     *)
(* elements and the interpolated strings are spliced in character by       *)
(* character, so that String.prototype.includes is a search and not a tag. *)
(***************************************************************************)
EXTENDS Integers, Sequences, FiniteSets, TLC

VARIABLES
    currentPlayer,   \* useGameState: 1 or 2
    words,           \* useGameState: sequence of [player, word, source]
    scores,          \* useGameState: [1..2 -> Nat]
    lastWord,        \* useGameState: string
    isGameOver,      \* useGameState: BOOLEAN
    winner,          \* useGameState: Null, 1 or 2
    pending,         \* submitWord calls suspended at the Wikipedia fetch
    accepted,        \* submitWord calls that returned success since the last start
    isSubmitting,    \* App: the submit guard
    variant,         \* which App source file renders the game
    last,            \* the most recent hook or UI operation and what it returned
    call             \* the most recent call of a pure function of gameLogic.js

vars == <<currentPlayer, words, scores, lastWord, isGameOver, winner,
          pending, accepted, isSubmitting, variant, last, call>>

gameVars == <<currentPlayer, words, scores, lastWord, isGameOver, winner>>

(***************************************************************************)
(* Bounds of the model.                                                    *)
(***************************************************************************)
MaxWordLen == 2      \* longest candidate drawn for the pure functions
MaxPrevLen == 2      \* longest previous word drawn for the pure functions
MaxWords == 2        \* longest history explored by the game
MaxPending == 1      \* most submitWord calls suspended at once
MaxResults == 2      \* longest Wikipedia result list
MaxDistLen == 2      \* longest string drawn for levenshteinDistance

(***************************************************************************)
(* Characters and the String methods the code uses.                        *)
(***************************************************************************)
Null == <<"null">>

LowerLetters == {"a", "b"}
UpperLetters == {"A", "B"}
Digits == {"1"}
Chars == {"a", "A", "b", "-", " "}

IsSpace(c) == c = " "
IsWordChar(c) == c \in LowerLetters \cup UpperLetters \cup Digits \cup {"_"}

Lower(c) == CASE c = "A" -> "a" [] c = "B" -> "b" [] OTHER -> c
Upper(c) == CASE c = "a" -> "A" [] c = "b" -> "B" [] OTHER -> c

Falsy(s) == s = Null \/ s = <<>>

toLowerCase(s) == [i \in 1..Len(s) |-> Lower(s[i])]
toUpperCase(s) == [i \in 1..Len(s) |-> Upper(s[i])]

RECURSIVE trimStart(_)
trimStart(s) ==
    IF s # <<>> /\ IsSpace(Head(s)) THEN trimStart(Tail(s)) ELSE s

RECURSIVE trimEnd(_)
trimEnd(s) ==
    IF s # <<>> /\ IsSpace(s[Len(s)]) THEN trimEnd(SubSeq(s, 1, Len(s) - 1)) ELSE s

trim(s) == trimEnd(trimStart(s))

charAt(s, i) == IF i >= 0 /\ i < Len(s) THEN <<s[i + 1]>> ELSE <<>>

\* s.includes(t): t occurs in s as a contiguous run
includes(s, t) ==
    \E i \in 0..(Len(s) - Len(t)) : SubSeq(s, i + 1, i + Len(t)) = t

\* word.replace(/[^\w\s]/g, '')
stripPunctuation(s) == SelectSeq(s, LAMBDA c : IsWordChar(c) \/ IsSpace(c))

Min(a, b) == IF a <= b THEN a ELSE b

(***************************************************************************)
(* gameLogic.js: the Letter-Chain Rule.                                    *)
(***************************************************************************)
getLastLetter_keepsPunctuation(word) ==
    IF Falsy(word) THEN <<>>
    ELSE LET cleaned == trim(word)
         IN  IF Len(cleaned) = 0 THEN <<>>
             ELSE toLowerCase(charAt(cleaned, Len(cleaned) - 1))

getLastLetter(word) ==
    IF Falsy(word) THEN <<>>
    ELSE LET cleaned == trim(stripPunctuation(trim(word)))
         IN  IF Len(cleaned) = 0 THEN <<>>
             ELSE toLowerCase(charAt(cleaned, Len(cleaned) - 1))

startsWithCorrectLetter_noFirstTurn(word, lastWord_) ==
    IF Falsy(word) THEN FALSE
    ELSE toLowerCase(charAt(trim(word), 0)) = getLastLetter(lastWord_)

startsWithCorrectLetter_caseSensitive(word, lastWord_) ==
    IF Falsy(lastWord_) \/ Len(trim(lastWord_)) = 0 THEN TRUE
    ELSE IF Falsy(word) THEN FALSE
    ELSE charAt(trim(word), 0) = getLastLetter(lastWord_)

startsWithCorrectLetter(word, lastWord_) ==
    IF Falsy(lastWord_) \/ Len(trim(lastWord_)) = 0 THEN TRUE
    ELSE IF Falsy(word) THEN FALSE
    ELSE LET requiredLetter == getLastLetter(lastWord_)
             wordStartLetter == toLowerCase(charAt(trim(word), 0))
         IN  wordStartLetter = requiredLetter

(***************************************************************************)
(* gameLogic.js: the edit distance.                                        *)
(***************************************************************************)
\* one row of the matrix: row holds matrix[i][0 .. Len(row) - 1], prevRow is
\* matrix[i - 1]; cell j of a row is element j + 1 of the sequence
RECURSIVE fillRow(_, _, _, _, _)
fillRow(aLower, bLower, i, prevRow, row) ==
    IF Len(row) > Len(aLower) THEN row
    ELSE LET j == Len(row)
             cell == IF bLower[i] = aLower[j] THEN prevRow[j]
                     ELSE Min(prevRow[j] + 1,          \* substitution
                              Min(row[j] + 1,          \* insertion
                                  prevRow[j + 1] + 1)) \* deletion
         IN  fillRow(aLower, bLower, i, prevRow, Append(row, cell))

RECURSIVE fillMatrix(_, _, _, _)
fillMatrix(aLower, bLower, i, prevRow) ==
    IF i > Len(bLower) THEN prevRow
    ELSE fillMatrix(aLower, bLower, i + 1,
                    fillRow(aLower, bLower, i, prevRow, <<i>>))

levenshteinDistance_caseSensitive(a, b) ==
    IF Falsy(a) \/ Falsy(b)
    THEN IF ~Falsy(a) THEN Len(a) ELSE IF ~Falsy(b) THEN Len(b) ELSE 0
    ELSE LET firstRow == [j \in 1..(Len(a) + 1) |-> j - 1]
         IN  fillMatrix(a, b, 1, firstRow)[Len(a) + 1]

levenshteinDistance_emptyFirstIsZero(a, b) ==
    IF Falsy(a) \/ Falsy(b)
    THEN IF ~Falsy(a) THEN Len(a) ELSE 0
    ELSE LET aLower == toLowerCase(a)
             bLower == toLowerCase(b)
             firstRow == [j \in 1..(Len(aLower) + 1) |-> j - 1]
         IN  fillMatrix(aLower, bLower, 1, firstRow)[Len(aLower) + 1]

levenshteinDistance(a, b) ==
    IF Falsy(a) \/ Falsy(b)
    THEN IF ~Falsy(a) THEN Len(a) ELSE IF ~Falsy(b) THEN Len(b) ELSE 0
    ELSE LET aLower == toLowerCase(a)
             bLower == toLowerCase(b)
             firstRow == [j \in 1..(Len(aLower) + 1) |-> j - 1]
         IN  fillMatrix(aLower, bLower, 1, firstRow)[Len(aLower) + 1]

(***************************************************************************)
(* gameLogic.js: the Brand Resolver.  A dictionary entry is a bare string  *)
(* or an object with a name, which may be missing.                         *)
(***************************************************************************)
StringBrand(name) == [kind |-> "string", name |-> name]
ObjectBrand(name) == [kind |-> "object", name |-> name]
NoBrand == [kind |-> "null", name |-> Null]

\* typeof brand === 'string' ? brand : brand?.name
brandNameOf(brand) == brand.name

staticMaxDistance == 2

RECURSIVE findBrandFrom(_, _, _)
findBrandFrom(searchTerm, brands, i) ==
    IF i > Len(brands) THEN NoBrand
    ELSE LET brandName == brandNameOf(brands[i])
         IN  IF ~Falsy(brandName) /\ toLowerCase(brandName) = searchTerm
             THEN brands[i]
             ELSE findBrandFrom(searchTerm, brands, i + 1)

findBrand(word, brands) ==
    IF Falsy(word) THEN NoBrand
    ELSE findBrandFrom(toLowerCase(trim(word)), brands, 1)

\* Math.min(maxDistance, Math.max(1, Math.floor(searchLength * 0.4)))
proportionalMax(searchLength, maxDistance) ==
    LET scaled == (searchLength * 4) \div 10
    IN  Min(maxDistance, IF scaled >= 1 THEN scaled ELSE 1)

RECURSIVE fuzzyLoop_lastWinsTies(_, _, _, _, _)
fuzzyLoop_lastWinsTies(searchTerm, brands, maxDistance, i, best) ==
    IF i > Len(brands) THEN best
    ELSE LET brand == brands[i]
             brandName == brandNameOf(brand)
             distance == levenshteinDistance(searchTerm, brandName)
             improves == distance <= proportionalMax(Len(searchTerm), maxDistance)
                         /\ (best.brand = NoBrand \/ distance <= best.distance)
         IN  IF Falsy(brandName)
             THEN fuzzyLoop_lastWinsTies(searchTerm, brands, maxDistance, i + 1, best)
             ELSE fuzzyLoop_lastWinsTies(searchTerm, brands, maxDistance, i + 1,
                                         IF improves
                                         THEN [brand |-> brand, distance |-> distance]
                                         ELSE best)

\* the for loop of findBrandFuzzy; best.brand = NoBrand stands for
\* bestMatch = null with bestDistance = Infinity
RECURSIVE fuzzyLoop(_, _, _, _, _)
fuzzyLoop(searchTerm, brands, maxDistance, i, best) ==
    IF i > Len(brands) THEN best
    ELSE LET brand == brands[i]
             brandName == brandNameOf(brand)
             distance == levenshteinDistance(searchTerm, brandName)
             improves == distance <= proportionalMax(Len(searchTerm), maxDistance)
                         /\ (best.brand = NoBrand \/ distance < best.distance)
         IN  IF Falsy(brandName)
             THEN fuzzyLoop(searchTerm, brands, maxDistance, i + 1, best)
             ELSE fuzzyLoop(searchTerm, brands, maxDistance, i + 1,
                            IF improves THEN [brand |-> brand, distance |-> distance]
                            ELSE best)

findBrandFuzzy_fuzzyFirst(word, brands) ==
    IF Falsy(word) THEN [brand |-> NoBrand, confidence |-> "none", distance |-> -1]
    ELSE LET searchTerm == trim(word)
             best == fuzzyLoop(searchTerm, brands, staticMaxDistance, 1,
                               [brand |-> NoBrand, distance |-> -1])
         IN  IF best.brand # NoBrand
             THEN [brand |-> best.brand, confidence |-> "fuzzy",
                   distance |-> best.distance]
             ELSE [brand |-> NoBrand, confidence |-> "none", distance |-> -1]

findBrandFuzzy(word, brands) ==
    IF Falsy(word) THEN [brand |-> NoBrand, confidence |-> "none", distance |-> -1]
    ELSE LET searchTerm == trim(word)
             exactMatch == findBrand(searchTerm, brands)
             best == fuzzyLoop(searchTerm, brands, staticMaxDistance, 1,
                               [brand |-> NoBrand, distance |-> -1])
         IN  IF exactMatch # NoBrand
             THEN [brand |-> exactMatch, confidence |-> "exact", distance |-> -1]
             ELSE IF best.brand # NoBrand
             THEN [brand |-> best.brand, confidence |-> "fuzzy",
                   distance |-> best.distance]
             ELSE [brand |-> NoBrand, confidence |-> "none", distance |-> -1]

(***************************************************************************)
(* gameLogic.js: the synchronous Word Validator.  A ValidationResult has   *)
(* all its fields; a field the code leaves out (undefined) is Null.        *)
(***************************************************************************)
NotRecognizedPhrase == <<"not a recognized brand">>

ErrEmptyWord == <<"Please enter a word">>
ErrNotRecognized(trimmedWord) ==
    <<"\"">> \o trimmedWord \o <<"\" is ">> \o NotRecognizedPhrase
ErrDidYouMean(suggestedBrand) ==
    <<"Did you mean \"">> \o suggestedBrand \o <<"\"?">>
ErrMustStartWith(requiredLetter) ==
    <<"Word must start with \"">> \o toUpperCase(requiredLetter) \o <<"\"">>

Validation(valid, error, brand, suggestion, source) ==
    [valid |-> valid, error |-> error, brand |-> brand,
     suggestion |-> suggestion, source |-> source]

isBrandValid_acceptsFuzzy(word, brands, lastWord_) ==
    IF Falsy(word) \/ Len(trim(word)) = 0
    THEN Validation(FALSE, ErrEmptyWord, Null, Null, Null)
    ELSE LET trimmedWord == trim(word)
             fuzzyResult == findBrandFuzzy(trimmedWord, brands)
         IN  IF fuzzyResult.confidence = "none"
             THEN Validation(FALSE, ErrNotRecognized(trimmedWord), Null, Null, Null)
             ELSE IF ~Falsy(lastWord_) /\ Len(trim(lastWord_)) > 0
                     /\ ~startsWithCorrectLetter(trimmedWord, lastWord_)
             THEN Validation(FALSE, ErrMustStartWith(getLastLetter(lastWord_)),
                             Null, Null, Null)
             ELSE Validation(TRUE, Null, brandNameOf(fuzzyResult.brand), Null, Null)

isBrandValid_echoesInput(word, brands, lastWord_) ==
    IF Falsy(word) \/ Len(trim(word)) = 0
    THEN Validation(FALSE, ErrEmptyWord, Null, Null, Null)
    ELSE LET trimmedWord == trim(word)
             fuzzyResult == findBrandFuzzy(trimmedWord, brands)
         IN  IF fuzzyResult.confidence = "none"
             THEN Validation(FALSE, ErrNotRecognized(trimmedWord), Null, Null, Null)
             ELSE IF fuzzyResult.confidence = "fuzzy"
             THEN Validation(FALSE, ErrDidYouMean(brandNameOf(fuzzyResult.brand)),
                             Null, brandNameOf(fuzzyResult.brand), Null)
             ELSE IF ~Falsy(lastWord_) /\ Len(trim(lastWord_)) > 0
                     /\ ~startsWithCorrectLetter(trimmedWord, lastWord_)
             THEN Validation(FALSE, ErrMustStartWith(getLastLetter(lastWord_)),
                             Null, Null, Null)
             ELSE Validation(TRUE, Null, trimmedWord, Null, Null)

isBrandValid_chainBeforeSuggestion(word, brands, lastWord_) ==
    IF Falsy(word) \/ Len(trim(word)) = 0
    THEN Validation(FALSE, ErrEmptyWord, Null, Null, Null)
    ELSE LET trimmedWord == trim(word)
             fuzzyResult == findBrandFuzzy(trimmedWord, brands)
             suggestedBrand == brandNameOf(fuzzyResult.brand)
         IN  IF fuzzyResult.confidence = "none"
             THEN Validation(FALSE, ErrNotRecognized(trimmedWord), Null, Null, Null)
             ELSE IF ~Falsy(lastWord_) /\ Len(trim(lastWord_)) > 0
                     /\ ~startsWithCorrectLetter(trimmedWord, lastWord_)
             THEN Validation(FALSE, ErrMustStartWith(getLastLetter(lastWord_)),
                             Null, Null, Null)
             ELSE IF fuzzyResult.confidence = "fuzzy"
             THEN Validation(FALSE, ErrDidYouMean(suggestedBrand), Null,
                             suggestedBrand, Null)
             ELSE Validation(TRUE, Null, suggestedBrand, Null, Null)

isBrandValid(word, brands, lastWord_) ==
    IF Falsy(word) \/ Len(trim(word)) = 0
    THEN Validation(FALSE, ErrEmptyWord, Null, Null, Null)
    ELSE LET trimmedWord == trim(word)
             fuzzyResult == findBrandFuzzy(trimmedWord, brands)
             suggestedBrand == brandNameOf(fuzzyResult.brand)
             foundBrand == fuzzyResult.brand
         IN  IF fuzzyResult.confidence = "none"
             THEN Validation(FALSE, ErrNotRecognized(trimmedWord), Null, Null, Null)
             ELSE IF fuzzyResult.confidence = "fuzzy"
             THEN Validation(FALSE, ErrDidYouMean(suggestedBrand), Null,
                             suggestedBrand, Null)
             ELSE IF ~Falsy(lastWord_) /\ Len(trim(lastWord_)) > 0
                     /\ ~startsWithCorrectLetter(trimmedWord, lastWord_)
             THEN Validation(FALSE, ErrMustStartWith(getLastLetter(lastWord_)),
                             Null, Null, Null)
             ELSE Validation(TRUE, Null, brandNameOf(foundBrand), Null, Null)

(***************************************************************************)
(* wikipediaApi.js: the External Fallback Lookup.  What fetch and          *)
(* response.json() deliver is the environment's choice (a Response below); *)
(* everything after that is the code's.  The kinds of a Response: fetch    *)
(* rejects; the status is not ok; response.json() rejects; the data has no *)
(* query.search; query.search cannot be iterated; a list of results, each  *)
(* a title or Null where the result has none.                              *)
(***************************************************************************)
WikiResult(valid, title, error) ==
    [valid |-> valid, exists |-> valid, title |-> title, error |-> error]

WikiNetworkError == WikiResult(FALSE, Null, <<"Network error">>)

RECURSIVE searchLoop_exactOnly(_, _, _)
searchLoop_exactOnly(searchResults, searchTerm, i) ==
    IF i > Len(searchResults) THEN WikiResult(FALSE, Null, Null)
    ELSE IF searchResults[i] = Null THEN WikiNetworkError
    ELSE IF toLowerCase(searchResults[i]) = toLowerCase(searchTerm)
    THEN WikiResult(TRUE, searchResults[i], Null)
    ELSE searchLoop_exactOnly(searchResults, searchTerm, i + 1)

\* the for loop over data.query.search; a result without a title makes
\* result.title.toLowerCase() throw, which the catch block absorbs
RECURSIVE searchLoop(_, _, _)
searchLoop(searchResults, searchTerm, i) ==
    IF i > Len(searchResults) THEN WikiResult(FALSE, Null, Null)
    ELSE IF searchResults[i] = Null THEN WikiNetworkError
    ELSE LET resultTitle == toLowerCase(searchResults[i])
             searchLower == toLowerCase(searchTerm)
         IN  IF resultTitle = searchLower
             THEN WikiResult(TRUE, searchResults[i], Null)
             ELSE IF includes(resultTitle, searchLower)
                     \/ includes(searchLower, resultTitle)
             THEN WikiResult(TRUE, searchResults[i], Null)
             ELSE searchLoop(searchResults, searchTerm, i + 1)

validateBrandWithWikipedia_catchReportsExistence(brand, response) ==
    IF Falsy(brand) THEN WikiResult(FALSE, Null, <<"Invalid brand name">>)
    ELSE LET searchTerm == trim(brand)
             caught == WikiResult(TRUE, searchTerm, <<"Network error">>)
             found == IF response.kind = "results"
                      THEN searchLoop(response.search, searchTerm, 1)
                      ELSE caught
         IN  CASE response.kind \in {"fetchThrows", "jsonThrows", "badSearch"} ->
                      caught
               [] response.kind = "notOk" ->
                      WikiResult(FALSE, Null, <<"Wikipedia API request failed">>)
               [] response.kind = "noSearch" ->
                      WikiResult(FALSE, Null, <<"No results found">>)
               [] response.kind = "results" ->
                      IF found = WikiNetworkError THEN caught ELSE found

validateBrandWithWikipedia(brand, response) ==
    IF Falsy(brand) THEN WikiResult(FALSE, Null, <<"Invalid brand name">>)
    ELSE LET searchTerm == trim(brand)
         IN  CASE response.kind = "fetchThrows" -> WikiNetworkError
               [] response.kind = "notOk" ->
                      WikiResult(FALSE, Null, <<"Wikipedia API request failed">>)
               [] response.kind = "jsonThrows" -> WikiNetworkError
               [] response.kind = "noSearch" ->
                      WikiResult(FALSE, Null, <<"No results found">>)
               [] response.kind = "badSearch" -> WikiNetworkError
               [] response.kind = "results" ->
                      searchLoop(response.search, searchTerm, 1)

(***************************************************************************)
(* gameLogic.js: the asynchronous Word Validator.                          *)
(***************************************************************************)
SourceDatabase == <<"database">>
SourceWikipedia == <<"wikipedia">>

withSource(v, source) == [v EXCEPT !.source = source]

\* whether isBrandValidAsync, holding dbValidation, reaches its await of
\* validateBrandWithWikipedia
invokesWikipedia_onAnyRejection(dbValidation) == ~dbValidation.valid

invokesWikipedia(dbValidation) ==
    /\ ~dbValidation.valid
    /\ ~Falsy(dbValidation.error)
    /\ includes(dbValidation.error, NotRecognizedPhrase)

isBrandValidAsyncFrom_keepsQuery(dbValidation, word, lastWord_, response) ==
    LET trimmedWord == trim(word)
        wikiResult == validateBrandWithWikipedia(trimmedWord, response)
    IN  IF dbValidation.valid THEN withSource(dbValidation, SourceDatabase)
        ELSE IF invokesWikipedia(dbValidation) /\ wikiResult.valid
        THEN IF ~Falsy(lastWord_) /\ Len(trim(lastWord_)) > 0
                /\ ~startsWithCorrectLetter(trimmedWord, lastWord_)
             THEN [valid |-> FALSE,
                   error |-> ErrMustStartWith(getLastLetter(lastWord_)),
                   brand |-> Null, suggestion |-> Null, source |-> SourceWikipedia]
             ELSE [valid |-> TRUE, error |-> Null, brand |-> trimmedWord,
                   suggestion |-> Null, source |-> SourceWikipedia]
        ELSE withSource(dbValidation, SourceDatabase)

\* isBrandValidAsync after its first statement; response is read only on the
\* path that awaits the fetch
isBrandValidAsyncFrom(dbValidation, word, lastWord_, response) ==
    LET trimmedWord == trim(word)
        wikiResult == validateBrandWithWikipedia(trimmedWord, response)
    IN  IF dbValidation.valid THEN withSource(dbValidation, SourceDatabase)
        ELSE IF invokesWikipedia(dbValidation) /\ wikiResult.valid
        THEN IF ~Falsy(lastWord_) /\ Len(trim(lastWord_)) > 0
                /\ ~startsWithCorrectLetter(trimmedWord, lastWord_)
             THEN [valid |-> FALSE,
                   error |-> ErrMustStartWith(getLastLetter(lastWord_)),
                   brand |-> Null, suggestion |-> Null, source |-> SourceWikipedia]
             ELSE [valid |-> TRUE, error |-> Null, brand |-> wikiResult.title,
                   suggestion |-> Null, source |-> SourceWikipedia]
        ELSE withSource(dbValidation, SourceDatabase)

isBrandValidAsync(word, brands, lastWord_, response) ==
    isBrandValidAsyncFrom(isBrandValid(word, brands, lastWord_), word, lastWord_,
                          response)

(***************************************************************************)
(* The data of a game: the dictionary the hook imports, the strings a      *)
(* caller submits, and what Wikipedia may answer.                          *)
(***************************************************************************)
BRANDS == << StringBrand(<<"A", "b">>), StringBrand(<<"b", "a">>) >>

Submissions ==
    { <<"A", "b">>,            \* a brand as the dictionary spells it
      <<" ", "a", "b">>,       \* the same brand, other case, padded
      <<"b", "a">>,            \* continues the chain after "Ab"
      <<"b", "a", "a">>,       \* one edit away from "ba"
      <<"b", "_", "-">>,       \* in no dictionary: goes to Wikipedia
      <<>>,                    \* empty
      <<" ">> }                \* whitespace only

Titles ==
    { <<"B", "_", "-">>,             \* the query in another case
      <<"a", " ", "b", "_", "-">>,   \* contains the query
      <<"-">>,                       \* contained in the query
      <<>>,                          \* an empty title
      <<"a">>,                       \* unrelated
      Null }                         \* a result without a title

RECURSIVE SeqsUpTo(_, _)
SeqsUpTo(S, n) ==
    IF n = 0 THEN {<<>>}
    ELSE LET shorter == SeqsUpTo(S, n - 1)
         IN  shorter \cup {Append(q, x) : q \in shorter, x \in S}

Responses ==
    { [kind |-> k, search |-> <<>>] :
          k \in {"fetchThrows", "notOk", "jsonThrows", "noSearch", "badSearch"} }
    \cup { [kind |-> "results", search |-> r] : r \in SeqsUpTo(Titles, MaxResults) }

NoResponse == [kind |-> "fetchThrows", search |-> <<>>]

\* for each string submitWord is called with, one Response for every result that
\* validateBrandWithWikipedia can resolve to on it: two Responses with the
\* same result continue a suspended submitWord in the same way
ResponsesFor ==
    [word \in Submissions \cup {trim(w) : w \in Submissions} |->
        LET wikiResults == {validateBrandWithWikipedia(trim(word), response) :
                               response \in Responses}
        IN  {CHOOSE response \in Responses :
                 validateBrandWithWikipedia(trim(word), response) = wikiResult :
             wikiResult \in wikiResults}]

\* the Responses the i-th suspended submitWord may be continued with
ResponsesOf(queue, i) ==
    IF i \in 1..Len(queue) THEN ResponsesFor[queue[i].word] ELSE {}

(***************************************************************************)
(* useGameState.js                                                         *)
(***************************************************************************)
NoWinner == 0

Other(player) == IF player = 1 THEN 2 ELSE 1

NoValidation == Validation(FALSE, Null, Null, Null, Null)
NoWiki == WikiResult(FALSE, Null, Null)
NoResult == [success |-> FALSE, error |-> Null, suggestion |-> Null, source |-> Null]

\* last: the operation, its argument, the currentPlayer and lastWord its
\* closure holds, whether it fetched, whether it has returned, and whether the
\* game was over when it ran; for a submitWord that fetched, what
\* validateBrandWithWikipedia resolved to, whether the game was restarted
\* while it was suspended, and how many other calls were suspended when it
\* was made
Op(op, word, player, prev, looked, phase, validation, result) ==
    [op |-> op, word |-> word, player |-> player, prev |-> prev,
     looked |-> looked, phase |-> phase, validation |-> validation,
     result |-> result, wasOver |-> isGameOver, wiki |-> NoWiki,
     stale |-> FALSE, inFlight |-> Len(pending)]

\* const points = word.length
points(word) == Len(word)

\* what submitWord returns
submitWordResult(validation) ==
    IF ~validation.valid
    THEN [success |-> FALSE, error |-> validation.error,
          suggestion |-> validation.suggestion, source |-> validation.source]
    ELSE [success |-> TRUE, error |-> Null, suggestion |-> Null,
          source |-> validation.source]

\* what submitWord does to the state once its validation has arrived; player
\* is the currentPlayer of the render the call was made from
submitWordApply_flipsOnReject(word, player, validation) ==
    IF ~validation.valid
    THEN /\ currentPlayer' = Other(currentPlayer)
         /\ UNCHANGED <<words, scores, lastWord, isGameOver, winner>>
    ELSE /\ words' = Append(words, [player |-> player, word |-> validation.brand,
                                    source |-> validation.source])
         /\ lastWord' = validation.brand
         /\ scores' = [scores EXCEPT ![player] = @ + points(word)]
         /\ currentPlayer' = (IF currentPlayer = 1 THEN 2 ELSE 1)
         /\ UNCHANGED <<isGameOver, winner>>

submitWordApply_keepsLastWord(word, player, validation) ==
    IF ~validation.valid
    THEN UNCHANGED gameVars
    ELSE /\ words' = Append(words, [player |-> player, word |-> validation.brand,
                                    source |-> validation.source])
         /\ scores' = [scores EXCEPT ![player] = @ + points(word)]
         /\ currentPlayer' = (IF currentPlayer = 1 THEN 2 ELSE 1)
         /\ UNCHANGED <<lastWord, isGameOver, winner>>

submitWordApply(word, player, validation) ==
    IF ~validation.valid
    THEN UNCHANGED gameVars
    ELSE /\ words' = Append(words, [player |-> player, word |-> validation.brand,
                                    source |-> validation.source])
         /\ lastWord' = validation.brand
         /\ scores' = [scores EXCEPT ![player] = @ + points(word)]
         /\ currentPlayer' = (IF currentPlayer = 1 THEN 2 ELSE 1)
         /\ UNCHANGED <<isGameOver, winner>>

startGame_keepsScores ==
    /\ currentPlayer' = 1
    /\ words' = <<>>
    /\ lastWord' = <<>>
    /\ isGameOver' = FALSE
    /\ winner' = NoWinner
    /\ accepted' = 0
    /\ pending' = [i \in 1..Len(pending) |-> [pending[i] EXCEPT !.stale = TRUE]]
    /\ last' = Op("startGame", <<>>, currentPlayer, lastWord, FALSE, "returned",
                  NoValidation, NoResult)
    /\ UNCHANGED <<scores, isSubmitting, variant, call>>

startGame ==
    /\ currentPlayer' = 1
    /\ words' = <<>>
    /\ scores' = [p \in 1..2 |-> 0]
    /\ lastWord' = <<>>
    /\ isGameOver' = FALSE
    /\ winner' = NoWinner
    /\ accepted' = 0
    /\ pending' = [i \in 1..Len(pending) |-> [pending[i] EXCEPT !.stale = TRUE]]
    /\ last' = Op("startGame", <<>>, currentPlayer, lastWord, FALSE, "returned",
                  NoValidation, NoResult)
    /\ UNCHANGED <<isSubmitting, variant, call>>

RemoveAt(q, i) == SubSeq(q, 1, i - 1) \o SubSeq(q, i + 1, Len(q))

\* what a returned submitWord adds to the count of accepted submissions
Successes(result) == IF result.success THEN 1 ELSE 0

\* submitWord from its call to its first suspension.  Without a fetch the
\* awaits resume in microtasks, before any other event is handled, and the
\* call runs to its end; with one it is parked in pending with the values its
\* closure holds.
submitWordCall(op, word) ==
    LET dbValidation == isBrandValid(word, BRANDS, lastWord)
        validation == isBrandValidAsyncFrom(dbValidation, word, lastWord, NoResponse)
    IN  IF invokesWikipedia(dbValidation)
        THEN /\ Len(pending) < MaxPending
             /\ pending' = Append(pending,
                                  [word |-> word, player |-> currentPlayer,
                                   lastWord |-> lastWord,
                                   dbValidation |-> dbValidation,
                                   stale |-> FALSE])
             /\ last' = Op(op, word, currentPlayer, lastWord, TRUE, "awaiting",
                           NoValidation, NoResult)
             /\ UNCHANGED <<gameVars, accepted>>
        ELSE /\ submitWordApply(word, currentPlayer, validation)
             /\ accepted' = accepted + Successes(submitWordResult(validation))
             /\ last' = Op(op, word, currentPlayer, lastWord, FALSE, "returned",
                           validation, submitWordResult(validation))
             /\ UNCHANGED pending

\* the rest of a suspended submitWord, once the fetch has settled
submitWordSettle(op, i, response) ==
    LET c == pending[i]
        validation == isBrandValidAsyncFrom(c.dbValidation, c.word, c.lastWord,
                                            response)
        wikiResult == validateBrandWithWikipedia(trim(c.word), response)
    IN  /\ submitWordApply(c.word, c.player, validation)
        /\ accepted' = accepted + Successes(submitWordResult(validation))
        /\ last' = [Op(op, c.word, c.player, c.lastWord, TRUE, "returned",
                       validation, submitWordResult(validation))
                        EXCEPT !.wiki = wikiResult, !.stale = c.stale,
                               !.inFlight = Len(pending) - 1]
        /\ pending' = RemoveAt(pending, i)

submitWord(word) ==
    /\ Len(words) + Len(pending) < MaxWords
    /\ submitWordCall("submitWord", word)
    /\ UNCHANGED <<isSubmitting, variant, call>>

submitWordResume(i, response) ==
    /\ i \in 1..Len(pending)
    /\ submitWordSettle("submitWord", i, response)
    /\ UNCHANGED <<isSubmitting, variant, call>>

endGame_currentPlayerWins(op) ==
    /\ isGameOver' = TRUE
    /\ winner' = currentPlayer
    /\ last' = Op(op, <<>>, currentPlayer, lastWord, FALSE, "returned",
                  NoValidation, NoResult)
    /\ UNCHANGED <<currentPlayer, words, scores, lastWord, pending, accepted,
                   isSubmitting, variant, call>>

endGame_noWinner(op) ==
    /\ isGameOver' = TRUE
    /\ last' = Op(op, <<>>, currentPlayer, lastWord, FALSE, "returned",
                  NoValidation, NoResult)
    /\ UNCHANGED <<currentPlayer, words, scores, lastWord, winner, pending,
                   accepted, isSubmitting, variant, call>>

endGame(op) ==
    /\ isGameOver' = TRUE
    /\ winner' = (IF currentPlayer = 1 THEN 2 ELSE 1)
    /\ last' = Op(op, <<>>, currentPlayer, lastWord, FALSE, "returned",
                  NoValidation, NoResult)
    /\ UNCHANGED <<currentPlayer, words, scores, lastWord, pending, accepted,
                   isSubmitting, variant, call>>

skipTurn == endGame("skipTurn")

NoCall == [fn |-> "none", word |-> <<>>, prev |-> <<>>, brands |-> <<>>,
           bool |-> FALSE, match |-> [brand |-> NoBrand, confidence |-> "none",
                                      distance |-> -1],
           validation |-> NoValidation, fetched |-> FALSE,
           response |-> NoResponse, distance |-> -1, letter |-> <<>>,
           wiki |-> NoWiki]

InitGame ==
    /\ currentPlayer = 1
    /\ words = <<>>
    /\ scores = [p \in 1..2 |-> 0]
    /\ lastWord = <<>>
    /\ isGameOver = FALSE
    /\ winner = NoWinner
    /\ pending = <<>>
    /\ accepted = 0
    /\ isSubmitting = FALSE
    /\ last = [op |-> "init", word |-> <<>>, player |-> 1, prev |-> <<>>,
               looked |-> FALSE, phase |-> "returned",
               validation |-> NoValidation, result |-> NoResult,
               wasOver |-> FALSE, wiki |-> NoWiki, stale |-> FALSE,
               inFlight |-> 0]
    /\ call = NoCall

(***************************************************************************)
(* Spec: the hook, its operations called in any order by any caller.       *)
(***************************************************************************)
Init ==
    /\ InitGame
    /\ variant = "hook"

Next ==
    \/ startGame
    \/ \E word \in Submissions : submitWord(word)
    \/ \E i \in 1..MaxPending :
           \E response \in ResponsesOf(pending, i) : submitWordResume(i, response)
    \/ endGame("endGame")
    \/ skipTurn

Spec == Init /\ [][Next]_vars

(***************************************************************************)
(* App: the event handlers.  variant names the source file: the App.jsx    *)
(* whose handleSubmit does not await submitWord, or the one that does.     *)
(***************************************************************************)
AppVariants == {"App.jsx", "part_002"}

handleSubmit(word) ==
    /\ ~isGameOver                       \* WordInput is rendered in a running game
    /\ Len(trim(word)) > 0 /\ ~isSubmitting
    /\ Len(words) + Len(pending) < MaxWords
    /\ submitWordCall("handleSubmit", trim(word))
    /\ isSubmitting' = (variant = "part_002" /\ Len(pending') > Len(pending))
    /\ UNCHANGED <<variant, call>>

\* the promise of a suspended submitWord settles; the awaiting handleSubmit
\* of part_002 runs on to setIsSubmitting(false)
handleSubmitResume(i, response) ==
    /\ i \in 1..Len(pending)
    /\ submitWordSettle("handleSubmit", i, response)
    /\ isSubmitting' = FALSE
    /\ UNCHANGED <<variant, call>>

\* onClick of "Skip turn (give up)"
skipClick ==
    /\ ~isGameOver
    /\ submitWordCall("skipClick", <<>>)
    /\ UNCHANGED <<isSubmitting, variant, call>>

\* onClick of "Play Again", which is rendered once isGameOver holds
handlePlayAgain ==
    /\ isGameOver
    /\ startGame

InitUI ==
    /\ InitGame
    /\ variant \in AppVariants

NextUI ==
    \/ \E word \in Submissions : handleSubmit(word)
    \/ \E i \in 1..MaxPending :
           \E response \in ResponsesOf(pending, i) : handleSubmitResume(i, response)
    \/ skipClick

SpecUI == InitUI /\ [][NextUI]_vars

(***************************************************************************)
(* SpecLogic: the pure functions of gameLogic.js, each called once on      *)
(* inputs drawn from the bounded sets below.                               *)
(***************************************************************************)
Candidates == SeqsUpTo(Chars, MaxWordLen) \cup {Null}
PreviousWords == SeqsUpTo(Chars, MaxPrevLen) \cup {Null}

\* the previous words the validators are called with: the first move (null,
\* empty, blank) and words that end in either letter, in either case, or in
\* punctuation; startsWithCorrectLetter itself is called on all PreviousWords
ValidatorChars == {"a", "B", "-"}
ValidatorPreviousWords ==
    SeqsUpTo(ValidatorChars, MaxPrevLen) \cup {Null, <<" ">>}

Dictionaries ==
    { BRANDS,
      << ObjectBrand(<<"a", "a">>), StringBrand(<<"a", "b">>),
         StringBrand(<<"A", "B">>) >>,
      << ObjectBrand(Null), StringBrand(<<"a">>), ObjectBrand(<<"b", "-">>),
         StringBrand(<<" ", "b">>) >>,
      << >> }

\* candidates long enough for the proportional cap to reach the static
\* ceiling, and a dictionary with entries one, two and three edits from them
LongCandidates ==
    { <<"a", "b", "a", "b", "a">>,
      <<" ", "A", "b", "a", "b", "a">>,
      <<"b", "b", "a", "b", "a">> }

LongDictionary ==
    << StringBrand(<<"a", "b", "b", "b", "b">>),     \* two edits from "ababa"
       StringBrand(<<"b", "b", "b", "b", "b">>),     \* three
       StringBrand(<<"a", "a", "a", "b", "a">>),     \* one
       StringBrand(<<"a", "b", "a", "a", "a">>),     \* one, later
       StringBrand(<<"b", "b", "a", "b", "a">>) >>   \* one

\* answers to the one fetch of a call: a fault, no hit, the query itself in
\* upper case, and a title that contains the query
LogicResponses(word) ==
    { NoResponse,
      [kind |-> "results", search |-> <<>>],
      [kind |-> "results", search |-> << toUpperCase(trim(word)) >>],
      [kind |-> "results", search |-> << <<"b">> \o trim(word) >>] }

\* the brands validateBrandWithWikipedia is called with
Queries == Submissions \cup {Null}

\* the words getLastLetter is called on: digits and the underscore are
\* word characters of the regular expression too
LetterChars == Chars \cup Digits \cup {"_"}
LetterWords == SeqsUpTo(LetterChars, MaxPrevLen) \cup {Null}

\* the strings levenshteinDistance is called on
DistanceChars == {"a", "A", "b"}
DistanceStrings == SeqsUpTo(DistanceChars, MaxDistLen)

Called(c) ==
    /\ call' = c
    /\ UNCHANGED <<gameVars, pending, accepted, isSubmitting, variant, last>>

callStartsWithCorrectLetter ==
    /\ call = NoCall
    /\ \E word \in Candidates, lastWord_ \in PreviousWords :
           Called([NoCall EXCEPT !.fn = "startsWithCorrectLetter", !.word = word,
                                 !.prev = lastWord_,
                                 !.bool = startsWithCorrectLetter(word, lastWord_)])

callFindBrandFuzzy ==
    /\ call = NoCall
    /\ \E word \in Candidates \cup LongCandidates,
          brands \in Dictionaries \cup {LongDictionary, Tail(LongDictionary)} :
           Called([NoCall EXCEPT !.fn = "findBrandFuzzy", !.word = word,
                                 !.brands = brands,
                                 !.match = findBrandFuzzy(word, brands)])

callIsBrandValid ==
    /\ call = NoCall
    /\ \E word \in Candidates, brands \in Dictionaries,
          lastWord_ \in ValidatorPreviousWords :
           Called([NoCall EXCEPT !.fn = "isBrandValid", !.word = word,
                                 !.brands = brands, !.prev = lastWord_,
                                 !.validation = isBrandValid(word, brands, lastWord_)])

callIsBrandValidAsync ==
    /\ call = NoCall
    /\ \E word \in Candidates, brands \in Dictionaries,
          lastWord_ \in ValidatorPreviousWords :
           LET dbValidation == isBrandValid(word, brands, lastWord_)
           IN  \E response \in (IF invokesWikipedia(dbValidation)
                                 THEN LogicResponses(word) ELSE {NoResponse}) :
                   Called([NoCall EXCEPT
                              !.fn = "isBrandValidAsync", !.word = word,
                              !.brands = brands, !.prev = lastWord_,
                              !.fetched = invokesWikipedia(dbValidation),
                              !.response = response,
                              !.validation = isBrandValidAsyncFrom(dbValidation, word,
                                                                   lastWord_, response)])

callGetLastLetter ==
    /\ call = NoCall
    /\ \E word \in LetterWords :
           Called([NoCall EXCEPT !.fn = "getLastLetter", !.word = word,
                                 !.letter = getLastLetter(word)])

callValidateBrandWithWikipedia ==
    /\ call = NoCall
    /\ \E brand \in Queries, response \in Responses :
           Called([NoCall EXCEPT !.fn = "validateBrandWithWikipedia",
                                 !.word = brand, !.response = response,
                                 !.wiki = validateBrandWithWikipedia(brand, response)])

callLevenshteinDistance ==
    /\ call = NoCall
    /\ \E a \in DistanceStrings, b \in DistanceStrings :
           Called([NoCall EXCEPT !.fn = "levenshteinDistance", !.word = a,
                                 !.prev = b,
                                 !.distance = levenshteinDistance(a, b)])

InitLogic ==
    /\ InitGame
    /\ variant = "logic"

NextLogic ==
    \/ callStartsWithCorrectLetter
    \/ callFindBrandFuzzy
    \/ callIsBrandValid
    \/ callIsBrandValidAsync
    \/ callLevenshteinDistance
    \/ callGetLastLetter
    \/ callValidateBrandWithWikipedia

SpecLogic == InitLogic /\ [][NextLogic]_vars

(***************************************************************************)
(* Claims about the hook (Spec) and the App (SpecUI).  A step is told from *)
(* the operation it records in last'.                                      *)
(***************************************************************************)
Returned(op) == last'.op = op /\ last'.phase = "returned"

\* C1: every submitWord call whose validation is valid adds the trimmed
\* length of the submitted string to the acting player's score, leaves the
\* other player's score alone, appends exactly one WordEntry and flips
\* currentPlayer.
C1_AcceptedWordScoresTrimmedLength ==
    [][ (Returned("submitWord") /\ last'.validation.valid) =>
            /\ scores'[last'.player] =
                   scores[last'.player] + Len(trim(last'.word))
            /\ scores'[Other(last'.player)] = scores[Other(last'.player)]
            /\ Len(words') = Len(words) + 1
            /\ SubSeq(words', 1, Len(words)) = words
            /\ currentPlayer' = Other(currentPlayer) ]_vars

\* C2: a submitWord call whose validation is invalid leaves currentPlayer,
\* scores, words, lastWord, isGameOver and winner unchanged and returns
\* success = false with the validator's error, suggestion and source.
C2_RejectedWordChangesNothing ==
    [][ (Returned("submitWord") /\ ~last'.validation.valid) =>
            /\ UNCHANGED gameVars
            /\ last'.result = [success |-> FALSE,
                               error |-> last'.validation.error,
                               suggestion |-> last'.validation.suggestion,
                               source |-> last'.validation.source] ]_vars

\* a word one edit from a brand was rejected in mid-game and its suggestion
\* was passed through
C2_Witness ==
    /\ last.op = "submitWord" /\ last.phase = "returned"
    /\ ~last.validation.valid
    /\ last.result.suggestion # Null
    /\ Len(words) > 0

\* C3: a submission the Brand Resolver resolves as fuzzy is never accepted: no
\* WordEntry, no score, no flip of the turn, and no external lookup for it.
C3_FuzzyNeverAccepted ==
    [][ (last'.op = "submitWord"
         /\ findBrandFuzzy(last'.word, BRANDS).confidence = "fuzzy") =>
            /\ UNCHANGED gameVars
            /\ pending' = pending
            /\ ~last'.looked
            /\ last'.phase = "returned"
            /\ ~last'.result.success ]_vars

\* a fuzzy submission was made when both it and the brand it resembles begin
\* with the letter the chain requires
C3_Witness ==
    /\ last.op = "submitWord"
    /\ findBrandFuzzy(last.word, BRANDS).confidence = "fuzzy"
    /\ Len(trim(last.prev)) > 0
    /\ startsWithCorrectLetter(last.word, last.prev)
    /\ startsWithCorrectLetter(last.result.suggestion, last.prev)

\* C4: endGame or skipTurn in a running game sets isGameOver and makes the
\* opponent of the player to move the winner; words, scores, lastWord and
\* currentPlayer stay as they are.
C4_ForfeitMakesOpponentWinner ==
    [][ (last'.op \in {"endGame", "skipTurn"} /\ ~isGameOver) =>
            /\ isGameOver' = TRUE
            /\ winner' = Other(currentPlayer)
            /\ UNCHANGED <<words, scores, lastWord, currentPlayer>> ]_vars

\* player 2 gave up a running game after player 1's first word
C4_Witness ==
    /\ last.op \in {"endGame", "skipTurn"} /\ ~last.wasOver
    /\ Len(words) = 1 /\ currentPlayer = 2
    /\ isGameOver /\ winner = 1

\* C5: when the player to move clicks "Skip turn (give up)" in a running
\* game, the game is over and the other player is the winner.
C5_SkipClickEndsGame ==
    (last.op = "skipClick" /\ ~last.wasOver) =>
        (isGameOver /\ winner = Other(last.player))

(***************************************************************************)
(* Claims about the pure functions (SpecLogic).                            *)
(***************************************************************************)
NamedEntries(brands) == {i \in 1..Len(brands) : ~Falsy(brandNameOf(brands[i]))}

\* the dictionary entries whose name is the trimmed candidate, case aside
ExactEntries(word, brands) ==
    IF Falsy(word) THEN {}
    ELSE {i \in NamedEntries(brands) :
              toLowerCase(brandNameOf(brands[i])) = toLowerCase(trim(word))}

First(I) == CHOOSE i \in I : \A j \in I : i <= j

IsChainError(error) == error # Null /\ Head(error) = "Word must start with \""

FirstMove(lastWord_) == Falsy(lastWord_) \/ trim(lastWord_) = <<>>

\* C6: isBrandValid is valid exactly when the candidate is non-empty after
\* trimming, the Brand Resolver's confidence is exact and the Letter-Chain
\* Rule holds against previousWord; brand is then the dictionary's spelling.
C6_ValidIffExactAndChained ==
    call.fn = "isBrandValid" =>
        /\ call.validation.valid <=>
               /\ ~Falsy(call.word) /\ trim(call.word) # <<>>
               /\ findBrandFuzzy(call.word, call.brands).confidence = "exact"
               /\ startsWithCorrectLetter(call.word, call.prev)
        /\ call.validation.valid =>
               /\ ExactEntries(call.word, call.brands) # {}
               /\ call.validation.brand =
                      brandNameOf(call.brands[First(ExactEntries(call.word,
                                                                 call.brands))])

\* a candidate spelled in another case than the brand was accepted against
\* a previous word that constrains it
C6_Witness ==
    /\ call.fn = "isBrandValid"
    /\ call.validation.valid
    /\ call.validation.brand # trim(call.word)
    /\ ~FirstMove(call.prev)

\* C7: whenever a dictionary entry's name is the trimmed candidate, case
\* aside, findBrandFuzzy answers exact with the first such entry, whatever
\* other entries lie within fuzzy distance.
C7_ExactDominatesFuzzy ==
    (call.fn = "findBrandFuzzy" /\ ExactEntries(call.word, call.brands) # {}) =>
        /\ call.match.confidence = "exact"
        /\ call.match.brand = call.brands[First(ExactEntries(call.word, call.brands))]

\* an exact match was returned although an earlier entry lies within the
\* fuzzy threshold
C7_Witness ==
    /\ call.fn = "findBrandFuzzy"
    /\ call.match.confidence = "exact"
    /\ \E j \in NamedEntries(call.brands) :
           /\ j < First(ExactEntries(call.word, call.brands))
           /\ levenshteinDistance(trim(call.word), brandNameOf(call.brands[j]))
                  <= proportionalMax(Len(trim(call.word)), staticMaxDistance)

\* the first character of w after its leading whitespace, and the last
\* character of previous that is neither whitespace nor punctuation, both
\* case-folded; the empty string where there is none
FirstSignificant(w) ==
    IF Falsy(w) THEN <<>> ELSE toLowerCase(charAt(trimStart(w), 0))

LastSignificant(previous) ==
    LET I == {i \in 1..Len(previous) : IsWordChar(previous[i])}
    IN  IF Falsy(previous) \/ I = {} THEN <<>>
        ELSE << Lower(previous[CHOOSE i \in I : \A j \in I : j <= i]) >>

C9_FirstMoveUnconstrained ==
    /\ (call.fn = "startsWithCorrectLetter" /\ FirstMove(call.prev)
        /\ ~Falsy(call.word)) => call.bool
    /\ (call.fn = "isBrandValid" /\ FirstMove(call.prev)) =>
           ~IsChainError(call.validation.error)

\* a candidate was checked against a whitespace-only previous word
C9_Witness ==
    /\ call.fn = "startsWithCorrectLetter"
    /\ call.prev \notin {Null, <<>>} /\ trim(call.prev) = <<>>
    /\ ~Falsy(call.word)
    /\ call.bool

\* C10: isBrandValidAsync invokes the external lookup exactly when the
\* synchronous rejection is "not a recognized brand"; on every other
\* synchronous outcome it returns that outcome's valid, error, brand and
\* suggestion.
C10_LookupOnlyWhenNotRecognized ==
    call.fn = "isBrandValidAsync" =>
        LET db == isBrandValid(call.word, call.brands, call.prev)
        IN  /\ call.fetched <=>
                   (~db.valid /\ db.error = ErrNotRecognized(trim(call.word)))
            /\ call.fetched =>
                   findBrandFuzzy(call.word, call.brands).confidence = "none"
            /\ ~call.fetched =>
                   /\ call.validation.valid = db.valid
                   /\ call.validation.error = db.error
                   /\ call.validation.brand = db.brand
                   /\ call.validation.suggestion = db.suggestion

\* a word in no dictionary was looked up and accepted on Wikipedia's word
C10_Witness ==
    /\ call.fn = "isBrandValidAsync"
    /\ call.fetched
    /\ call.validation.valid
    /\ call.validation.source = SourceWikipedia

\* C11: when the dictionary holds no exact and no fuzzy match for the
\* candidate, validateBrandWithWikipedia reports existence with a title, and
\* the candidate passes the Letter-Chain Rule against previousWord,
\* isBrandValidAsync returns valid with source wikipedia and brand equal to
\* that title.
C11_FallbackAcceptsWithCanonicalTitle ==
    (/\ call.fn = "isBrandValidAsync"
     /\ ~Falsy(call.word) /\ trim(call.word) # <<>>
     /\ findBrandFuzzy(call.word, call.brands).confidence = "none"
     /\ validateBrandWithWikipedia(trim(call.word), call.response).valid
     /\ startsWithCorrectLetter(trim(call.word), call.prev)) =>
        /\ call.validation.valid
        /\ call.validation.source = SourceWikipedia
        /\ call.validation.brand =
               validateBrandWithWikipedia(trim(call.word), call.response).title
        /\ call.validation.error = Null

\* a word in no dictionary continued the chain and was accepted under a title
\* that is longer than the word
C11_Witness ==
    /\ call.fn = "isBrandValidAsync"
    /\ findBrandFuzzy(call.word, call.brands).confidence = "none"
    /\ ~FirstMove(call.prev)
    /\ call.validation.valid
    /\ call.validation.source = SourceWikipedia
    /\ Len(call.validation.brand) > Len(trim(call.word))

(***************************************************************************)
(* Claims about the hook (Spec) and the App (SpecUI), continued.           *)
(***************************************************************************)
\* a title the loop of validateBrandWithWikipedia returns on
Qualifies(title, query) ==
    /\ title # Null
    /\ \/ toLowerCase(title) = toLowerCase(query)
       \/ includes(toLowerCase(title), toLowerCase(query))
       \/ includes(toLowerCase(query), toLowerCase(title))

\* the lookup faults: the fetch fails, the status is not a success, the body
\* is not JSON, the result list is missing or cannot be read, or the loop
\* comes to a result without a title before any title qualifies
LookupFault(response, query) ==
    \/ response.kind \in {"fetchThrows", "notOk", "jsonThrows", "noSearch",
                          "badSearch"}
    \/ /\ response.kind = "results"
       /\ \E i \in 1..Len(response.search) :
              /\ response.search[i] = Null
              /\ \A j \in 1..(i - 1) : ~Qualifies(response.search[j], query)

\* for each string submitWord is called with, what validateBrandWithWikipedia
\* resolves to on the Responses that are lookup faults
LookupFaultResults ==
    [word \in Submissions \cup {trim(w) : w \in Submissions} |->
        {validateBrandWithWikipedia(trim(word), response) :
             response \in {r \in Responses : LookupFault(r, trim(word))}}]

\* C12: whatever lookup fault a suspended submitWord meets,
\* validateBrandWithWikipedia resolves to valid = false, isBrandValidAsync
\* returns the "not a recognized brand" rejection of the synchronous
\* validator, and submitWord returns failure and leaves the game state as it
\* was.
C12_LookupFaultsAbsorbed ==
    [][ (/\ Returned("submitWord") /\ last'.looked
         /\ last'.wiki \in LookupFaultResults[last'.word]) =>
            /\ ~last'.wiki.valid
            /\ ~last'.validation.valid
            /\ last'.validation.error = ErrNotRecognized(trim(last'.word))
            /\ last'.validation.brand = Null
            /\ last'.validation.suggestion = Null
            /\ ~last'.result.success
            /\ last'.result.error = last'.validation.error
            /\ UNCHANGED gameVars ]_vars

\* in mid-game a lookup ended in the catch block and the word was rejected
C12_Witness ==
    /\ last.op = "submitWord" /\ last.phase = "returned" /\ last.looked
    /\ last.wiki.error = <<"Network error">>
    /\ ~last.result.success
    /\ Len(words) > 0

\* C13: in every reachable state words holds as many entries as submissions
\* were accepted since the last start, and lastWord is the word of the last
\* entry, or the empty string when words is empty.
C13_HistoryCountsAcceptedAndEndsInLastWord ==
    /\ Len(words) = accepted
    /\ lastWord = (IF Len(words) > 0 THEN words[Len(words)].word ELSE <<>>)

\* two words were accepted, the second on Wikipedia's word
C13_Witness ==
    /\ Len(words) = 2 /\ accepted = 2
    /\ words[2].source = SourceWikipedia
    /\ lastWord = words[2].word /\ lastWord # words[1].word

\* C14: in every reachable state winner is defined exactly when isGameOver
\* holds; no state is a game over without a winner.
C14_WinnerIffGameOver ==
    (winner # NoWinner) <=> isGameOver

\* player 1 gave up after two words and player 2 is the winner
C14_Witness ==
    /\ isGameOver /\ winner = 2
    /\ last.op \in {"endGame", "skipTurn"}
    /\ Len(words) = 2

\* C15: once isGameOver holds, no submitWord, whether called then or
\* suspended since before, and no further endGame or skipTurn changes words,
\* scores, lastWord, currentPlayer or winner.
C15_GameOverIsTerminal ==
    [][ (isGameOver /\ last'.op \in {"submitWord", "endGame", "skipTurn"}) =>
            UNCHANGED <<words, scores, lastWord, currentPlayer, winner>> ]_vars

\* C16: startGame, from any state, leaves currentPlayer = 1, words empty,
\* both scores 0, lastWord empty, isGameOver false and winner null.
C16_StartGameResets ==
    [][ last'.op = "startGame" =>
            /\ currentPlayer' = 1
            /\ words' = <<>>
            /\ scores' = [p \in 1..2 |-> 0]
            /\ lastWord' = <<>>
            /\ isGameOver' = FALSE
            /\ winner' = NoWinner ]_vars

\* a game that was over, with a word played and player 2 to move, was
\* restarted
C16_Witness ==
    /\ last.op = "startGame"
    /\ last.wasOver /\ last.prev # <<>> /\ last.player = 2
    /\ currentPlayer = 1 /\ words = <<>> /\ scores[1] = 0 /\ ~isGameOver

\* C17: a submitWord that was suspended when startGame ran does not modify
\* words, scores, lastWord or currentPlayer when its validation arrives.
C17_StaleSubmissionDiscarded ==
    [][ (Returned("submitWord") /\ last'.stale) =>
            UNCHANGED <<words, scores, lastWord, currentPlayer>> ]_vars

\* C18: no handleSubmit of the App starts a submitWord while another
\* submitWord is suspended at its lookup.
C18_OneSubmissionInFlight ==
    (last.op = "handleSubmit" /\ ~(last.looked /\ last.phase = "returned")) =>
        last.inFlight = 0

(***************************************************************************)
(* Claims about the edit distance (SpecLogic).                             *)
(***************************************************************************)
\* the classic edit distance by its recurrence: the cheapest of deleting
\* the first character of a, inserting the first character of b, and
\* matching or substituting the two
RECURSIVE editDistance(_, _)
editDistance(a, b) ==
    IF a = <<>> THEN Len(b)
    ELSE IF b = <<>> THEN Len(a)
    ELSE Min(editDistance(Tail(a), b) + 1,
             Min(editDistance(a, Tail(b)) + 1,
                 editDistance(Tail(a), Tail(b))
                     + (IF Head(a) = Head(b) THEN 0 ELSE 1)))

\* C19: levenshteinDistance(a, b) is the classic edit distance (insertion,
\* deletion and substitution at cost 1 each) of the case-folded a and b; in
\* particular levenshteinDistance("", x) is the length of x.
C19_DistanceIsClassicEditDistance ==
    call.fn = "levenshteinDistance" =>
        /\ call.distance = editDistance(toLowerCase(call.word), toLowerCase(call.prev))
        /\ call.word = <<>> => call.distance = Len(call.prev)

\* two strings of the same length that differ in case in one place and in
\* letter in the other are one substitution apart
C19_Witness ==
    /\ call.fn = "levenshteinDistance"
    /\ Len(call.word) = 2 /\ Len(call.prev) = 2
    /\ call.word[1] # call.prev[1] /\ Lower(call.word[1]) = Lower(call.prev[1])
    /\ Lower(call.word[2]) # Lower(call.prev[2])
    /\ call.distance = 1

\* C20: levenshteinDistance is a metric on case-folded strings: the distance
\* of a string to itself is 0, the distance of a to b is that of b to a, and
\* the distance of a to c is at most that of a to b plus that of b to c,
\* the empty string included.
C20_DistanceIsMetric ==
    call.fn = "levenshteinDistance" =>
        /\ levenshteinDistance(call.word, call.word) = 0
        /\ call.distance = levenshteinDistance(call.prev, call.word)
        /\ \A c \in DistanceStrings :
               levenshteinDistance(call.word, c)
                   <= call.distance + levenshteinDistance(call.prev, c)

\* the distance from the empty string to a string of full length was taken
C20_Witness ==
    /\ call.fn = "levenshteinDistance"
    /\ call.word = <<>>
    /\ Len(call.prev) = MaxDistLen
    /\ call.distance = MaxDistLen

(***************************************************************************)
(* Claims about the Brand Resolver and the validators (SpecLogic),         *)
(* continued.                                                              *)
(***************************************************************************)
Max(a, b) == IF a >= b THEN a ELSE b

\* min(2, max(1, floor(len * 0.4)))
FuzzyThreshold(len) == Min(2, Max(1, (len * 4) \div 10))

\* the named entries within the threshold of the trimmed candidate
WithinThreshold(word, brands) ==
    {i \in NamedEntries(brands) :
         levenshteinDistance(trim(word), brandNameOf(brands[i]))
             <= FuzzyThreshold(Len(trim(word)))}

\* the earliest of the entries of I nearest to the trimmed candidate
Nearest(word, brands, I) ==
    CHOOSE i \in I :
        \A j \in I :
            LET di == levenshteinDistance(trim(word), brandNameOf(brands[i]))
                dj == levenshteinDistance(trim(word), brandNameOf(brands[j]))
            IN  di < dj \/ (di = dj /\ i <= j)

FuzzyPassAsClaimed(word, brands, match) ==
    LET I == WithinThreshold(word, brands)
    IN  /\ (match.confidence = "none") <=> (I = {})
        /\ I # {} =>
               /\ match.confidence = "fuzzy"
               /\ match.brand = brands[Nearest(word, brands, I)]
               /\ match.distance =
                      levenshteinDistance(trim(word), brandNameOf(match.brand))

\* C21: when no dictionary entry matches exactly, findBrandFuzzy answers
\* fuzzy with the entry of the smallest edit distance among those within
\* min(2, max(1, floor(len(trimmed candidate) * 0.4))), the earliest of them
\* on a tie, and answers none exactly when no entry is within that threshold.
C21_FuzzyPicksNearestWithinThreshold ==
    (/\ call.fn = "findBrandFuzzy" /\ call.word # Null
     /\ ExactEntries(call.word, call.brands) = {}) =>
        FuzzyPassAsClaimed(call.word, call.brands, call.match)

\* C21 as amended: the same for every candidate that is not the empty
\* string (a candidate of whitespace only takes the fuzzy pass with the
\* empty search term).
C21_FuzzyPicksNearestForNonEmptyCandidate ==
    (/\ call.fn = "findBrandFuzzy" /\ ~Falsy(call.word)
     /\ ExactEntries(call.word, call.brands) = {}) =>
        FuzzyPassAsClaimed(call.word, call.brands, call.match)

\* a candidate under the threshold of two was resolved to the first of two
\* entries at the same smallest distance, past an earlier entry two edits
\* away
C21_Witness ==
    /\ call.fn = "findBrandFuzzy"
    /\ call.match.confidence = "fuzzy"
    /\ FuzzyThreshold(Len(trim(call.word))) = 2
    /\ \E i, j, k \in WithinThreshold(call.word, call.brands) :
           /\ i < j /\ j < k
           /\ call.match.brand = call.brands[j]
           /\ levenshteinDistance(trim(call.word), brandNameOf(call.brands[i])) = 2
           /\ levenshteinDistance(trim(call.word), brandNameOf(call.brands[k]))
                  = call.match.distance

\* C22: for a candidate the Brand Resolver resolves as fuzzy, isBrandValid
\* is invalid with the "Did you mean" error and the matched brand's name as
\* suggestion, whatever the chain rule says: also when neither the candidate
\* nor the suggested brand starts with the required letter.
C22_FuzzySuggestsWithoutChainRule ==
    (/\ call.fn = "isBrandValid"
     /\ ~Falsy(call.word) /\ trim(call.word) # <<>>
     /\ findBrandFuzzy(call.word, call.brands).confidence = "fuzzy") =>
        LET name == brandNameOf(findBrandFuzzy(call.word, call.brands).brand)
        IN  /\ ~call.validation.valid
            /\ call.validation.error = ErrDidYouMean(name)
            /\ call.validation.suggestion = name
            /\ ~IsChainError(call.validation.error)

\* a suggestion was made although neither the candidate nor the suggested
\* brand continues the previous word
C22_Witness ==
    /\ call.fn = "isBrandValid"
    /\ call.validation.suggestion # Null
    /\ ~FirstMove(call.prev) /\ getLastLetter(call.prev) # <<>>
    /\ ~startsWithCorrectLetter(call.word, call.prev)
    /\ ~startsWithCorrectLetter(call.validation.suggestion, call.prev)

\* a previous word that is not blank and holds no letter, digit or
\* underscore: its required letter is empty
PunctuationOnly(previous) ==
    ~FirstMove(previous) /\ LastSignificant(previous) = <<>>

\* C23: a previous word of punctuation only imposes no chain constraint:
\* every non-empty candidate passes startsWithCorrectLetter against it.
C23_PunctuationOnlyPreviousUnconstrained ==
    (/\ call.fn = "startsWithCorrectLetter"
     /\ PunctuationOnly(call.prev)
     /\ ~Falsy(call.word) /\ trim(call.word) # <<>>) => call.bool

\* the last letter of the alphabet in a word, lower-cased; the empty string
\* where the word has none
LastAlphabetic(word) ==
    LET I == {i \in 1..Len(word) : word[i] \in LowerLetters \cup UpperLetters}
    IN  IF I = {} THEN <<>>
        ELSE << Lower(word[CHOOSE i \in I : \A j \in I : j <= i]) >>

\* C24: the required letter getLastLetter computes from a non-empty word is
\* the word's last alphabetic character, lower-cased, and never a digit, an
\* underscore or a punctuation character.
C24_RequiredLetterIsAlphabetic ==
    (call.fn = "getLastLetter" /\ ~Falsy(call.word)) =>
        /\ call.letter = LastAlphabetic(call.word)
        /\ call.letter \in {<<>>} \cup {<<c>> : c \in LowerLetters}

\* C24 as amended: the required letter is the word's last word character (a
\* letter, a digit or an underscore), lower-cased, and the empty string when
\* the word has none; it is never a punctuation or whitespace character.
C24_RequiredLetterIsLastWordCharacter ==
    (call.fn = "getLastLetter" /\ ~Falsy(call.word)) =>
        /\ call.letter = LastSignificant(call.word)
        /\ call.letter \in {<<>>} \cup {<<c>> : c \in LowerLetters \cup Digits \cup {"_"}}

\* the required letter of a word that ends in punctuation is the digit or
\* underscore before it
C24_Witness ==
    /\ call.fn = "getLastLetter"
    /\ Len(call.word) = 2
    /\ ~IsWordChar(call.word[2]) /\ ~IsSpace(call.word[2])
    /\ call.letter \in {<<"1">>, <<"_">>}

(***************************************************************************)
(* Claims about the history of a game (Spec).                              *)
(***************************************************************************)
\* C25: in every reachable state the history is a chain: the first character
\* of each recorded word after the first is, case aside, the required letter
\* of the word recorded before it, also where the recorded word is a
\* Wikipedia title and not the string that was submitted.
C25_HistoryIsChain ==
    \A i \in 2..Len(words) :
        toLowerCase(charAt(words[i].word, 0)) = getLastLetter(words[i - 1].word)

\* C26: in every reachable state the players alternate in the history,
\* player 1 first, and currentPlayer is 1 exactly when the history holds an
\* even number of words.
C26_PlayersAlternate ==
    /\ \A i \in 1..Len(words) : words[i].player = (IF i % 2 = 1 THEN 1 ELSE 2)
    /\ (currentPlayer = 1) <=> (Len(words) % 2 = 0)

RECURSIVE LengthOfWordsOf(_, _)
LengthOfWordsOf(player, history) ==
    IF history = <<>> THEN 0
    ELSE (IF Head(history).player = player THEN Len(Head(history).word) ELSE 0)
         + LengthOfWordsOf(player, Tail(history))

\* C27: in every reachable state each player's score is the sum of the
\* lengths of the words the history records for that player.
C27_ScoreIsLengthOfRecordedWords ==
    \A player \in 1..2 : scores[player] = LengthOfWordsOf(player, words)

\* C30: every recorded word is non-empty, so lastWord is the empty string
\* only when the history is empty.
C30_RecordedWordsNonEmpty ==
    /\ \A i \in 1..Len(words) : words[i].word # <<>>
    /\ lastWord = <<>> => words = <<>>

(***************************************************************************)
(* Claims about suggestions and the lookup (SpecLogic).                    *)
(***************************************************************************)
\* C28: a suggestion isBrandValid returns resolves, against the same
\* dictionary, with confidence exact, and is accepted whenever it satisfies
\* the chain rule.
C28_SuggestionIsAcceptedVerbatim ==
    (call.fn = "isBrandValid" /\ call.validation.suggestion # Null) =>
        LET suggestion == call.validation.suggestion
        IN  /\ findBrandFuzzy(suggestion, call.brands).confidence = "exact"
            /\ startsWithCorrectLetter(suggestion, call.prev) =>
                   isBrandValid(suggestion, call.brands, call.prev).valid

\* the results of a response, none where the lookup brought no list
ResultsOf(response) ==
    IF response.kind = "results" THEN response.search ELSE <<>>

\* existence exactly when a title qualifies, with the first such title
ExistenceAsClaimed(brand, response, wiki) ==
    LET titles == ResultsOf(response)
        I == {i \in 1..Len(titles) : Qualifies(titles[i], trim(brand))}
    IN  /\ wiki.valid <=> (I # {})
        /\ I # {} => wiki.title = titles[First(I)]
        /\ I = {} => wiki.title = Null

\* C29: validateBrandWithWikipedia reports existence exactly when some
\* returned title equals the trimmed query, case aside, or one of the two
\* contains the other; the title it returns is that of the first such result,
\* and when no result qualifies it reports valid = false with no title.
C29_ExistsIffSomeTitleQualifies ==
    (call.fn = "validateBrandWithWikipedia" /\ call.word # Null) =>
        ExistenceAsClaimed(call.word, call.response, call.wiki)

\* C29 as amended: the same for a query that is not the empty string and a
\* result list in which no result before the first qualifying one lacks its
\* title.
C29_ExistsIffSomeTitleQualifiesInReadableList ==
    (/\ call.fn = "validateBrandWithWikipedia" /\ ~Falsy(call.word)
     /\ call.response.kind = "results" =>
            ~LookupFault(call.response, trim(call.word))) =>
        ExistenceAsClaimed(call.word, call.response, call.wiki)

\* of two different titles that both qualify for a padded query, the
\* first was returned
C29_Witness ==
    /\ call.fn = "validateBrandWithWikipedia"
    /\ call.wiki.valid
    /\ trim(call.word) # call.word
    /\ Len(ResultsOf(call.response)) = 2
    /\ Qualifies(call.response.search[1], trim(call.word))
    /\ Qualifies(call.response.search[2], trim(call.word))
    /\ call.response.search[1] # call.response.search[2]
    /\ call.wiki.title = call.response.search[1]

====
